---- MODULE Spec2Model ----
\* execvars: variables bound to shell commands. When the variable server asks
\* for a variable to be printed, the bound command is run and its standard
\* output is copied to the print session's file descriptor, optionally under
\* a timeout (src/src/execvars.c).
EXTENDS Integers, Sequences, FiniteSets, TLC

\* ------------------------------------------------------------------ bounds
MaxRegs == 2        \* configuration entries handed to SetupExecVar
MaxOut == 2         \* bytes a command writes to its standard output
MaxTimeout == 2     \* largest -t value
MaxClock == 3       \* seconds followed after a command was started
BUFSIZ == 2         \* size of the read buffer, scaled down
MaxSignals == 2     \* SIGTERM/SIGINT deliveries followed

\* ------------------------------------------------------- program constants
VAR_INVALID == 0
NULL == "NULL"

Names == {"/sys/uptime", "/sys/nosuch"}
Cmds == {"", "uptime"}
Handles == 0..2
TimeoutValues == (0 - 1)..MaxTimeout

\* VAR_FindByName: the handle of a variable name, VAR_INVALID when unknown
VAR_FindByName(name) == IF name = "/sys/uptime" THEN 1 ELSE VAR_INVALID

Min(a, b) == IF a < b THEN a ELSE b
Take(s, k) == SubSeq(s, 1, k)
\* (mutant) the bytes read stay where they were
Drop_keep(s, k) == s

Drop(s, k) == SubSeq(s, k + 1, Len(s))

VARIABLES
    pc,                 \* position of the single thread of control
    timeout_seconds,    \* state.timeout_seconds
    pExecVars,          \* state.pExecVars, head of the list first
    lastReg,            \* history: per handle, the pCmd last stored for it
    nreg,               \* configuration entries iterated so far
    sig,                \* main's sig: what VARSERVER_WaitSignal returned
    hVar, fd,           \* outputs of VAR_OpenPrintSession
    cmd,                \* ExecuteCommand's cmd argument
    fp_in,              \* the stream of the command's output: NULL or "open"
    child,              \* "none", "running", "exited" (not waited for), "reaped"
    wopen,              \* the command still holds the pipe's write end
    ropen,              \* this process still holds the pipe's read end
    pipe,               \* bytes written by the command and not yet read
    nprod,              \* history: number of bytes the command has written
    buf,                \* buf[0..n): the bytes fread has gathered, n = Len(buf)
    sink,               \* bytes accepted by the print session's descriptor
    timeout,            \* timeout.tv_sec, as left behind by select
    waited,             \* history: seconds slept inside select
    elapsed,            \* history: seconds since the command was started
    retval,             \* select's return value
    result,             \* ExecuteCommand's result
    evResult,           \* ExecuteVar's return value
    killSent,           \* kill( pid, SIGKILL ) was called
    readErr,            \* history: a read of the pipe failed
    pFileName,          \* state.pFileName: NULL or the -f argument
    srv,                \* state.hVarServer: NULL, "open", or "closed" (stale)
    closes,             \* history: what srv was at each VARSERVER_Close call
    nsig,               \* termination signals delivered so far
    session,            \* the print session of the request: "none" or "open"
    orphan,             \* a command of an earlier request is still running;
                        \* followed until the next command is started
    lastServed,         \* history: handle of the last request whose command
                        \* ran to its end on the popen path, else VAR_INVALID
    log                 \* the syslog entries written since the request at
                        \* hand was taken up

vars == << pc, timeout_seconds, pExecVars, lastReg, nreg, sig, hVar, fd,
           cmd, fp_in, child, wopen, ropen, pipe, nprod, buf, sink,
           timeout, waited, elapsed, retval, result, evResult, killSent,
           readErr, pFileName, srv, closes, nsig, session, orphan,
           lastServed, log >>

regVars == << pExecVars, lastReg, nreg >>
reqVars == << hVar, fd >>
procVars == << child, wopen, ropen, pipe, nprod >>
timeVars == << timeout, waited, elapsed >>
envVars == << pFileName, srv, closes, nsig >>
loopVars == << session, orphan, lastServed, log >>

\* the bytes the command has written so far: byte i carries the value i
Produced == [i \in 1..nprod |-> i]

\* ---------------------------------------------------------------- registry
\* (mutant) the walk takes the first entry without comparing handles
Lookup_noCompare(list, h) ==
    IF list = << >> THEN "absent" ELSE Head(list).pCmd

\* the list walk of ExecuteVar: the first entry whose hVar matches
RECURSIVE Lookup(_, _)
Lookup(list, h) ==
    IF list = << >> THEN "absent"
    ELSE IF Head(list).hVar = h THEN Head(list).pCmd
    ELSE Lookup(Tail(list), h)

\* (mutant) the new entry goes to the tail of the list
PushFront_append(list, e) == list \o << e >>

\* SetupExecVar stores the new entry at the head of the list
PushFront(list, e) == << e >> \o list

\* syslog( LOG_ERR, "Timeout %d seconds exceeded for command %s\n",
\*         timeout_seconds, cmd )
TimeoutEntry(seconds, command) ==
    [what |-> "Timeout", seconds |-> seconds, command |-> command]

\* syslog( LOG_ERR, "Abnormal termination of execvars\n" )
TerminationEntry == [what |-> "Abnormal termination"]

Init ==
    /\ pc = "start"
    /\ timeout_seconds = 0
    /\ pExecVars = << >>
    /\ lastReg = [h \in Handles |-> "absent"]
    /\ nreg = 0
    /\ sig = "none"
    /\ hVar = VAR_INVALID
    /\ fd = 0 - 1
    /\ cmd = NULL
    /\ fp_in = NULL
    /\ child = "none"
    /\ wopen = FALSE
    /\ ropen = FALSE
    /\ pipe = << >>
    /\ nprod = 0
    /\ buf = << >>
    /\ sink = << >>
    /\ timeout = 0
    /\ waited = 0
    /\ elapsed = 0
    /\ retval = 0
    /\ result = "EINVAL"
    /\ evResult = "EINVAL"
    /\ killSent = FALSE
    /\ readErr = FALSE
    /\ pFileName = NULL
    /\ srv = NULL
    /\ closes = << >>
    /\ nsig = 0
    /\ session = "none"
    /\ orphan = FALSE
    /\ lastServed = VAR_INVALID
    /\ log = << >>


\* --------------------------------------------------------------- start-up
\* main: fewer than two arguments after the program name (argc < 3) prints
\* the usage text and calls exit( 1 ) before anything else is set up
MainUsageExit ==
    /\ pc = "start"
    /\ pc' = "exit1"
    /\ UNCHANGED << envVars, loopVars, timeout_seconds, regVars, sig, reqVars,
                    cmd, fp_in, procVars, buf, sink, timeVars, retval,
                    result, evResult, killSent, readErr >>

\* main with argc >= 3: SetupTerminationHandler, then ProcessOptions.
\* -f <name> sets state.pFileName (f says whether -f was given) and
\* -t <seconds> sets state.timeout_seconds (atoi of the argument; t = 0 also
\* stands for a command line without -t, which keeps the 0 of the memset).
\* -v and -h only set a flag and print: ProcessOptions returns to main in
\* every case and main goes on to VARSERVER_Open
ProcessOptions(f, t) ==
    /\ pc = "start"
    /\ pFileName' = IF f THEN "execvars.json" ELSE NULL
    /\ timeout_seconds' = t
    /\ pc' = "open"
    /\ UNCHANGED << srv, closes, nsig, loopVars, regVars, sig, reqVars, cmd,
                    fp_in, procVars, buf, sink, timeVars, retval, result,
                    evResult, killSent, readErr >>

\* state.hVarServer = VARSERVER_Open() yields a handle
VarServerOpenOk ==
    /\ pc = "open"
    /\ srv' = "open"
    /\ pc' = "setup"
    /\ UNCHANGED << pFileName, closes, nsig, loopVars, timeout_seconds,
                    regVars, sig, reqVars, cmd, fp_in, procVars, buf, sink,
                    timeVars, retval, result, evResult, killSent, readErr >>

\* VARSERVER_Open() yields NULL: main skips the block and returns
VarServerOpenFail ==
    /\ pc = "open"
    /\ pc' = "returned"
    /\ UNCHANGED << envVars, loopVars, timeout_seconds, regVars, sig, reqVars,
                    cmd, fp_in, procVars, buf, sink, timeVars, retval,
                    result, evResult, killSent, readErr >>

\* SetupExecVar, called by JSON_Iterate for one node of the "commands" array
\* of the file state.pFileName names (no file name, no nodes)
SetupExecVar(varname, cmdstr, mallocOk, strdupOk) ==
    /\ pc = "setup"
    /\ pFileName # NULL
    /\ nreg < MaxRegs
    /\ nreg' = nreg + 1
    /\ IF varname # NULL /\ cmdstr # NULL /\ mallocOk
       THEN LET e == [hVar |-> VAR_FindByName(varname),
                      pCmd |-> IF strdupOk THEN cmdstr ELSE NULL]
            IN /\ pExecVars' = PushFront(pExecVars, e)
               /\ lastReg' = [lastReg EXCEPT ![e.hVar] = e.pCmd]
       ELSE UNCHANGED << pExecVars, lastReg >>
    /\ UNCHANGED << envVars, loopVars,
                    pc, timeout_seconds, sig, reqVars, cmd, fp_in, procVars,
                    buf, sink, timeVars, retval, result, evResult,
                    killSent, readErr >>

\* JSON_Iterate has visited every node: main enters while( 1 )
StartLoop ==
    /\ pc = "setup"
    /\ pc' = "wait"
    /\ UNCHANGED << envVars, loopVars,
                    timeout_seconds, regVars, sig, reqVars, cmd, fp_in,
                    procVars, buf, sink, timeVars, retval, result,
                    evResult, killSent, readErr >>

\* ------------------------------------------------------------- event loop
\* VARSERVER_WaitSignal returns a signal other than SIG_VAR_PRINT
WaitSignalOther ==
    /\ pc = "wait"
    /\ sig' = "SIG_VAR_MODIFIED"
    /\ UNCHANGED << envVars, loopVars,
                    pc, timeout_seconds, regVars, reqVars, cmd, fp_in, procVars,
                    buf, sink, timeVars, retval, result, evResult,
                    killSent, readErr >>

\* VARSERVER_WaitSignal returns SIG_VAR_PRINT and VAR_OpenPrintSession
\* yields the variable handle and the output descriptor of the request
WaitSignalPrint(h, f) ==
    /\ pc = "wait"
    /\ sig' = "SIG_VAR_PRINT"
    /\ hVar' = h
    /\ fd' = f
    /\ session' = "open"
    /\ pc' = "execvar"
    /\ UNCHANGED << envVars, orphan, lastServed, log,
                    timeout_seconds, regVars, cmd, fp_in, procVars, buf,
                    sink, timeVars, retval, result, evResult, killSent, readErr >>

\* (mutant) no test of pCmd against NULL
ExecuteVarOutcome_noNullTest(list, h) ==
    IF h = VAR_INVALID THEN "EINVAL"
    ELSE IF Lookup(list, h) = "absent" THEN "ENOENT"
    ELSE "RUN"

\* ExecuteVar up to the call of ExecuteCommand: what the walk of the list
\* decides for handle h
ExecuteVarOutcome(list, h) ==
    IF h = VAR_INVALID THEN "EINVAL"
    ELSE IF Lookup(list, h) = "absent" THEN "ENOENT"
    ELSE IF Lookup(list, h) = NULL THEN "ENOTSUP"
    ELSE "RUN"

\* (mutant) only a timeout of exactly 0 takes the popen path
UseUnbounded_zeroOnly(t) == t = 0

\* ExecuteCommand: timeout_seconds <= 0 takes the popen path
UseUnbounded(t) == t <= 0

\* ExecuteCommand: timeout.tv_sec = timeout_seconds before the loop
InitialTimeout(t) == t

\* (mutant) the timeval is set up again before every select
RearmTimeout_perRead(left, t) == t

\* ExecuteCommand: the loop hands select the timeval of the previous round
RearmTimeout(left, t) == left

ExecuteVar ==
    /\ pc = "execvar"
    /\ LET o == ExecuteVarOutcome(pExecVars, hVar)
       IN IF o = "RUN"
          THEN /\ cmd' = Lookup(pExecVars, hVar)
               /\ result' = "ENOENT"
               /\ evResult' = "ENOENT"
               /\ pc' = IF UseUnbounded(timeout_seconds)
                        THEN "u_popen" ELSE "b_popen2"
          ELSE /\ evResult' = o
               /\ pc' = "closesession"
               /\ UNCHANGED << cmd, result >>
    /\ UNCHANGED << envVars, loopVars,
                    timeout_seconds, regVars, sig, reqVars, fp_in, procVars,
                    buf, sink, timeVars, retval, killSent, readErr >>

\* ExecuteVar: result = ExecuteCommand( pExecVar->pCmd, fd, ... ); return result
ReturnOf(r) == r

\* (mutant) the print session is left open
CloseSession_leftOpen(s) == s

\* VAR_ClosePrintSession( state.hVarServer, sigval.sival_int, fd )
CloseSession(s) == "none"

\* VAR_ClosePrintSession, then back to VARSERVER_WaitSignal: the locals of
\* the calls that returned are gone and the next request starts afresh. A
\* command that is still running stays behind as a process of its own
ClosePrintSession ==
    /\ pc = "closesession"
    /\ pc' = "wait"
    /\ session' = CloseSession(session)
    /\ orphan' = (orphan \/ child = "running")
    /\ lastServed' = IF cmd # NULL /\ UseUnbounded(timeout_seconds)
                        /\ child = "reaped"
                     THEN hVar ELSE lastServed
    /\ hVar' = VAR_INVALID
    /\ fd' = 0 - 1
    /\ cmd' = NULL
    /\ fp_in' = NULL
    /\ child' = "none"
    /\ wopen' = FALSE
    /\ ropen' = FALSE
    /\ pipe' = << >>
    /\ nprod' = 0
    /\ buf' = << >>
    /\ sink' = << >>
    /\ timeout' = 0
    /\ waited' = 0
    /\ elapsed' = 0
    /\ retval' = 0
    /\ result' = "EINVAL"
    /\ evResult' = "EINVAL"
    /\ killSent' = FALSE
    /\ readErr' = FALSE
    /\ log' = << >>
    /\ UNCHANGED << envVars, timeout_seconds, regVars, sig >>

\* ------------------------------------------------------------ termination
\* SIGTERM or SIGINT is delivered. SetupTerminationHandler ran before
\* ProcessOptions and installs TerminationHandler for both with an empty
\* sa_mask, so the other signal can interrupt the handler as well. The
\* interrupted call never resumes: its locals are dropped here, the command
\* and the pipe stay as they are
TerminationSignal ==
    /\ pc \notin {"start", "exit1", "returned", "crashed"}
    /\ nsig < MaxSignals
    /\ nsig' = nsig + 1
    /\ pc' = "h_close"
    /\ sig' = "none"
    /\ hVar' = VAR_INVALID
    /\ fd' = 0 - 1
    /\ cmd' = NULL
    /\ fp_in' = NULL
    /\ buf' = << >>
    /\ sink' = << >>
    /\ timeout' = 0
    /\ waited' = 0
    /\ elapsed' = 0
    /\ retval' = 0
    /\ result' = "EINVAL"
    /\ evResult' = "EINVAL"
    /\ killSent' = FALSE
    /\ readErr' = FALSE
    /\ UNCHANGED << pFileName, srv, closes, loopVars, timeout_seconds,
                    regVars, procVars >>

\* TerminationHandler: syslog, then VARSERVER_Close( state.hVarServer ),
\* whatever state.hVarServer holds at that moment
HandlerClose ==
    /\ pc = "h_close"
    /\ log' = Append(log, TerminationEntry)
    /\ closes' = Append(closes, srv)
    /\ srv' = IF srv = "open" THEN "closed" ELSE srv
    /\ pc' = "h_exit"
    /\ UNCHANGED << pFileName, nsig, session, orphan, lastServed,
                    timeout_seconds, regVars, sig,
                    reqVars, cmd, fp_in, procVars, buf, sink, timeVars,
                    retval, result, evResult, killSent, readErr >>

\* TerminationHandler: exit( 1 ). The process's descriptors are closed by
\* the kernel; no kill and no wait is issued for a command
HandlerExit ==
    /\ pc = "h_exit"
    /\ pc' = "exit1"
    /\ ropen' = FALSE
    /\ pipe' = << >>
    /\ UNCHANGED << envVars, loopVars, timeout_seconds, regVars, sig, reqVars,
                    cmd, fp_in, child, wopen, nprod, buf, sink, timeVars,
                    retval, result, evResult, killSent, readErr >>

\* a command left behind by an earlier request exits at last
OrphanExit ==
    /\ orphan
    /\ orphan' = FALSE
    /\ UNCHANGED << envVars, session, lastServed, log, pc, timeout_seconds,
                    regVars, sig, reqVars, cmd, fp_in, procVars, buf, sink,
                    timeVars, retval, result, evResult, killSent, readErr >>

\* ------------------------------------------------- the command (environment)
\* the command writes one more byte to its standard output
ChildWrite ==
    /\ child = "running"
    /\ wopen
    /\ ropen
    /\ nprod < MaxOut
    /\ nprod' = nprod + 1
    /\ pipe' = Append(pipe, nprod + 1)
    /\ UNCHANGED << envVars, loopVars,
                    pc, timeout_seconds, regVars, sig, reqVars, cmd, fp_in,
                    child, wopen, ropen, buf, sink, timeVars, retval,
                    result, evResult, killSent, readErr >>

\* the command closes its standard output and keeps running
ChildCloseStdout ==
    /\ child = "running"
    /\ wopen
    /\ wopen' = FALSE
    /\ UNCHANGED << envVars, loopVars,
                    pc, timeout_seconds, regVars, sig, reqVars, cmd, fp_in,
                    child, ropen, pipe, nprod, buf, sink, timeVars, retval,
                    result, evResult, killSent, readErr >>

\* the command exits
ChildExit ==
    /\ child = "running"
    /\ child' = "exited"
    /\ wopen' = FALSE
    /\ UNCHANGED << envVars, loopVars,
                    pc, timeout_seconds, regVars, sig, reqVars, cmd, fp_in,
                    ropen, pipe, nprod, buf, sink, timeVars, retval,
                    result, evResult, killSent, readErr >>

\* ------------------------------------------- ExecuteCommand, popen path
\* popen fails: result stays ENOENT
PopenFail ==
    /\ pc = "u_popen"
    /\ evResult' = ReturnOf(result)
    /\ pc' = "closesession"
    /\ UNCHANGED << envVars, loopVars,
                    timeout_seconds, regVars, sig, reqVars, cmd, fp_in,
                    procVars, buf, sink, timeVars, retval, result,
                    killSent, readErr >>

\* popen starts sh -c cmd and returns the stream of its output
PopenOk ==
    /\ pc = "u_popen"
    /\ fp_in' = "open"
    /\ child' = "running"
    /\ wopen' = TRUE
    /\ ropen' = TRUE
    /\ orphan' = FALSE
    /\ buf' = << >>
    /\ pc' = "u_fread"
    /\ UNCHANGED << envVars, session, lastServed, log,
                    timeout_seconds, regVars, sig, reqVars, cmd, pipe, nprod,
                    sink, timeVars, retval, result, evResult, killSent,
                    readErr >>

\* (mutant) the loop goes on for as long as select did not fail
LoopAgain_nonNegative(rv) == rv >= 0

\* ExecuteCommand: the condition of do { ... } while ( retval > 0 )
LoopAgain(rv) == rv > 0

\* where the select loop goes at the end of a round that left retval = rv
LoopExit(rv) == IF LoopAgain(rv) THEN "b_select" ELSE "b_pclose"

\* (mutant) a read of no bytes is reported as an error
ReadResult_eofInvalid(count, r) == IF count > 0 THEN r ELSE "EINVAL"

\* ExecuteCommand, select loop: result after fread returned count. n == 0
\* sets EOK; the n < 0 branch would set EINVAL but fread's size_t is never
\* negative, so after n > 0 result is what it was
ReadResult(count, r) == IF count > 0 THEN r ELSE "EOK"

\* where ExecuteCommand goes once fread( buf, 1, BUFSIZ, fp_in ) returned
\* count; in the select loop n == 0 sets retval = 0 and ends the loop
AfterFread(at, count) ==
    IF at = "u_fread"
    THEN IF count > 0 THEN "u_write" ELSE "u_pclose"
    ELSE IF count > 0 THEN "b_write" ELSE LoopExit(0)

\* fread: one read of the pipe. fread returns when BUFSIZ bytes are
\* gathered or at end of file, and otherwise reads again (and blocks)
FreadStep ==
    /\ pc \in {"u_fread", "b_fread"}
    /\ pipe # << >> \/ ~wopen
    /\ LET k == Min(Len(pipe), BUFSIZ - Len(buf))
           nb == buf \o Take(pipe, k)
           np == Drop(pipe, k)
       IN /\ buf' = nb
          /\ pipe' = np
          /\ IF Len(nb) = BUFSIZ \/ (~wopen /\ np = << >>)
             THEN /\ pc' = AfterFread(pc, Len(nb))
                  /\ IF pc = "b_fread"
                     THEN /\ result' = ReadResult(Len(nb), result)
                          /\ retval' = IF Len(nb) = 0 THEN 0 ELSE retval
                     ELSE UNCHANGED << retval, result >>
             ELSE UNCHANGED << pc, retval, result >>
    /\ UNCHANGED << envVars, loopVars,
                    timeout_seconds, regVars, sig, reqVars, cmd, fp_in,
                    child, wopen, ropen, nprod, sink, timeVars, evResult,
                    killSent, readErr >>

\* fread: a read of the pipe fails; fread returns the bytes gathered so far
FreadError ==
    /\ pc \in {"u_fread", "b_fread"}
    /\ readErr' = TRUE
    /\ pc' = AfterFread(pc, Len(buf))
    /\ IF pc = "b_fread"
       THEN /\ result' = ReadResult(Len(buf), result)
            /\ retval' = IF Len(buf) = 0 THEN 0 ELSE retval
       ELSE UNCHANGED << retval, result >>
    /\ UNCHANGED << envVars, loopVars,
                    timeout_seconds, regVars, sig, reqVars, cmd, fp_in,
                    procVars, buf, sink, timeVars, evResult, killSent >>

\* write( fd, buf, n ) when fd >= 0: the descriptor accepts k of the n
\* bytes and the return value is not looked at
WriteChunk ==
    /\ pc \in {"u_write", "b_write"}
    /\ IF fd >= 0
       THEN \E k \in 0..Len(buf) : sink' = sink \o Take(buf, k)
       ELSE UNCHANGED sink
    /\ buf' = << >>
    /\ IF pc = "u_write"
       THEN pc' = "u_fread" /\ UNCHANGED timeout
       ELSE /\ pc' = LoopExit(retval)
            /\ timeout' = RearmTimeout(timeout, timeout_seconds)
    /\ UNCHANGED << envVars, loopVars,
                    timeout_seconds, regVars, sig, reqVars, cmd, fp_in,
                    procVars, waited, elapsed, retval, result, evResult,
                    killSent, readErr >>

\* pclose of a popen stream: closes the stream, then waits for the command
PcloseClose ==
    /\ pc = "u_pclose"
    /\ ropen' = FALSE
    /\ pipe' = << >>
    /\ fp_in' = "closed"
    /\ pc' = "u_wait"
    /\ UNCHANGED << envVars, loopVars,
                    timeout_seconds, regVars, sig, reqVars, cmd, child,
                    wopen, nprod, buf, sink, timeVars, retval,
                    result, evResult, killSent, readErr >>

\* (mutant) pclose does not wait for the command
WaitReturns_atOnce(c) == c \in {"running", "exited"}

\* pclose( fp ): the wait for the command's pid returns once it has exited
WaitReturns(c) == c = "exited"

\* the wait of pclose returns once the command has exited; result = EOK
PcloseWait ==
    /\ pc = "u_wait"
    /\ WaitReturns(child)
    /\ child' = "reaped"
    /\ result' = "EOK"
    /\ evResult' = ReturnOf("EOK")
    /\ pc' = "closesession"
    /\ UNCHANGED << envVars, loopVars,
                    timeout_seconds, regVars, sig, reqVars, cmd, fp_in,
                    wopen, ropen, pipe, nprod, buf, sink, timeVars, retval,
                    killSent, readErr >>

\* ------------------------------------------ ExecuteCommand, popen2 path
\* popen2: pipe() or fork() fails, NULL is returned and nothing was started
Popen2Fail ==
    /\ pc = "b_popen2"
    /\ pc' = "b_pclose"
    /\ UNCHANGED << envVars, loopVars,
                    timeout_seconds, regVars, sig, reqVars, cmd, fp_in,
                    procVars, buf, sink, timeVars, retval, result,
                    evResult, killSent, readErr >>

\* popen2: fork() succeeded and then close( pfp[child_end] ) or fdopen
\* fails: NULL is returned, the child runs and the read end stays open
Popen2FailAfterFork ==
    /\ pc = "b_popen2"
    /\ child' = "running"
    /\ wopen' = TRUE
    /\ ropen' = TRUE
    /\ pc' = "b_pclose"
    /\ UNCHANGED << envVars, loopVars,
                    timeout_seconds, regVars, sig, reqVars, cmd, fp_in,
                    pipe, nprod, buf, sink, timeVars, retval, result,
                    evResult, killSent, readErr >>

\* popen2 returns the stream; the timeval is set up for select
Popen2Ok ==
    /\ pc = "b_popen2"
    /\ fp_in' = "open"
    /\ child' = "running"
    /\ wopen' = TRUE
    /\ ropen' = TRUE
    /\ orphan' = FALSE
    /\ timeout' = InitialTimeout(timeout_seconds)
    /\ pc' = "b_select"
    /\ UNCHANGED << envVars, session, lastServed, log,
                    timeout_seconds, regVars, sig, reqVars, cmd, pipe, nprod,
                    buf, sink, waited, elapsed, retval, result, evResult,
                    killSent, readErr >>

\* select returns 1: the pipe holds data or is at end of file
SelectReady ==
    /\ pc = "b_select"
    /\ pipe # << >> \/ ~wopen
    /\ retval' = 1
    /\ buf' = << >>
    /\ pc' = "b_fread"
    /\ UNCHANGED << envVars, loopVars,
                    timeout_seconds, regVars, sig, reqVars, cmd, fp_in,
                    procVars, sink, timeVars, result, evResult, killSent,
                    readErr >>

\* select returns 0: the time left ran out; kill( pid, SIGKILL ), syslog
SelectTimeout ==
    /\ pc = "b_select"
    /\ pipe = << >> /\ wopen
    /\ timeout = 0
    /\ retval' = 0
    /\ result' = "EINVAL"
    /\ killSent' = TRUE
    /\ log' = Append(log, TimeoutEntry(timeout_seconds, cmd))
    /\ child' = IF child = "running" THEN "exited" ELSE child
    /\ wopen' = FALSE
    /\ pc' = LoopExit(0)
    /\ UNCHANGED << envVars, session, orphan, lastServed,
                    timeout_seconds, regVars, sig, reqVars, cmd, fp_in,
                    ropen, pipe, nprod, buf, sink, timeVars, evResult,
                    readErr >>

\* select returns -1
SelectError ==
    /\ pc = "b_select"
    /\ retval' = 0 - 1
    /\ result' = "EINVAL"
    /\ pc' = LoopExit(0 - 1)
    /\ UNCHANGED << envVars, loopVars,
                    timeout_seconds, regVars, sig, reqVars, cmd, fp_in,
                    procVars, buf, sink, timeVars, evResult, killSent,
                    readErr >>

\* pclose( NULL ) after popen2 failed is undefined: glibc and musl both read
\* through the pointer and the process dies of SIGSEGV
PcloseNullCrash ==
    /\ pc = "b_pclose"
    /\ fp_in = NULL
    /\ pc' = "crashed"
    /\ UNCHANGED << envVars, loopVars,
                    timeout_seconds, regVars, sig, reqVars, cmd, fp_in,
                    procVars, buf, sink, timeVars, retval, result,
                    evResult, killSent, readErr >>

\* pclose of a stream that popen did not create is undefined: a libc whose
\* pclose is fclose (glibc) closes the descriptor and waits for nobody ...
PcloseNoWait ==
    /\ pc = "b_pclose"
    /\ fp_in = "open"
    /\ fp_in' = "closed"
    /\ ropen' = FALSE
    /\ evResult' = ReturnOf(result)
    /\ pc' = "closesession"
    /\ pipe' = << >>
    /\ UNCHANGED << envVars, loopVars,
                    timeout_seconds, regVars, sig, reqVars, cmd, child,
                    wopen, nprod, buf, sink, timeVars, retval,
                    result, killSent, readErr >>

\* ... and a libc that waits for the pid kept in the stream, 0 here (musl),
\* closes the descriptor and blocks until a child has exited
PcloseWaitAny ==
    /\ pc = "b_pclose"
    /\ fp_in = "open"
    /\ fp_in' = "closed"
    /\ ropen' = FALSE
    /\ pipe' = << >>
    /\ pc' = "b_wait"
    /\ UNCHANGED << envVars, loopVars,
                    timeout_seconds, regVars, sig, reqVars, cmd, child,
                    wopen, nprod, buf, sink, timeVars, retval,
                    result, evResult, killSent, readErr >>

PcloseWaitAnyDone ==
    /\ pc = "b_wait"
    /\ child = "exited"
    /\ child' = "reaped"
    /\ evResult' = ReturnOf(result)
    /\ pc' = "closesession"
    /\ UNCHANGED << envVars, loopVars,
                    timeout_seconds, regVars, sig, reqVars, cmd, fp_in,
                    wopen, ropen, pipe, nprod, buf, sink, timeVars, retval,
                    result, killSent, readErr >>

\* ------------------------------------------------------------------- time
\* a second passes inside select: Linux leaves the time not slept in the
\* timeval
TickSelect ==
    /\ pc = "b_select"
    /\ pipe = << >> /\ wopen
    /\ timeout > 0
    /\ timeout' = timeout - 1
    /\ waited' = waited + 1
    /\ elapsed' = Min(elapsed + 1, MaxClock)
    /\ UNCHANGED << envVars, loopVars,
                    pc, timeout_seconds, regVars, sig, reqVars, cmd, fp_in,
                    procVars, buf, sink, retval, result, evResult,
                    killSent, readErr >>

\* a second passes while the popen2 path is blocked in a read of the pipe
\* or in the wait of pclose (the popen path has no deadline to follow)
TickBlocked ==
    /\ \/ pc = "b_fread" /\ pipe = << >> /\ wopen
       \/ pc = "b_wait" /\ child = "running"
    /\ elapsed < MaxClock
    /\ elapsed' = elapsed + 1
    /\ UNCHANGED << envVars, loopVars,
                    pc, timeout_seconds, regVars, sig, reqVars, cmd, fp_in,
                    procVars, buf, sink, timeout, waited, retval, result,
                    evResult, killSent, readErr >>

Next ==
    \/ MainUsageExit
    \/ \E f \in BOOLEAN, t \in TimeoutValues : ProcessOptions(f, t)
    \/ VarServerOpenOk
    \/ VarServerOpenFail
    \/ \E v \in Names \cup {NULL}, c \in Cmds \cup {NULL},
          m \in BOOLEAN, s \in BOOLEAN : SetupExecVar(v, c, m, s)
    \/ StartLoop
    \/ WaitSignalOther
    \/ \E h \in Handles, f \in {0 - 1, 3} : WaitSignalPrint(h, f)
    \/ ExecuteVar
    \/ ClosePrintSession
    \/ ChildWrite
    \/ ChildCloseStdout
    \/ ChildExit
    \/ PopenFail
    \/ PopenOk
    \/ FreadStep
    \/ FreadError
    \/ WriteChunk
    \/ PcloseClose
    \/ PcloseWait
    \/ Popen2Fail
    \/ Popen2FailAfterFork
    \/ Popen2Ok
    \/ SelectReady
    \/ SelectTimeout
    \/ SelectError
    \/ PcloseNullCrash
    \/ PcloseNoWait
    \/ PcloseWaitAny
    \/ PcloseWaitAnyDone
    \/ TickSelect
    \/ TickBlocked
    \/ TerminationSignal
    \/ HandlerClose
    \/ HandlerExit
    \/ OrphanExit

Spec == Init /\ [][Next]_vars


\* the steps of the program itself, as opposed to the command's and time's
Program ==
    \/ MainUsageExit
    \/ \E f \in BOOLEAN, t \in TimeoutValues : ProcessOptions(f, t)
    \/ VarServerOpenOk \/ VarServerOpenFail
    \/ StartLoop
    \/ ExecuteVar
    \/ ClosePrintSession
    \/ PopenFail \/ PopenOk
    \/ FreadStep
    \/ WriteChunk
    \/ PcloseClose \/ PcloseWait
    \/ Popen2Fail \/ Popen2FailAfterFork \/ Popen2Ok
    \/ SelectReady \/ SelectTimeout
    \/ PcloseNullCrash
    \/ PcloseNoWait \/ PcloseWaitAny \/ PcloseWaitAnyDone
    \/ HandlerClose \/ HandlerExit

\* the process is scheduled whenever it can take a step, and the clock of
\* select runs; nothing is assumed of the command
FairSpec == Spec /\ WF_vars(Program) /\ WF_vars(TickSelect)

\* ------------------------------------------------------------ vocabulary
UnboundedPcs == {"u_popen", "u_fread", "u_write", "u_pclose", "u_wait"}
BoundedPcs == {"b_popen2", "b_select", "b_fread", "b_write", "b_pclose", "b_wait"}
BoundedLoopPcs == {"b_select", "b_fread", "b_write"}

\* ExecuteVar has decided the request at hand
Dispatched == pc \in UnboundedPcs \cup BoundedPcs \cup {"closesession", "crashed"}

\* ExecuteCommand was called for the request at hand and has returned
Returned == pc = "closesession" /\ cmd # NULL

\* ------------------------------------------------------------------ claims

\* C1 (as claimed): whenever the popen2 path of ExecuteCommand returns after
\* popen2 gave it the command's stream, the pipe is closed and the child has
\* been waited for.
C1_ReapedOnReturn ==
    (Returned /\ timeout_seconds > 0 /\ fp_in = "closed")
        => (~ropen /\ child = "reaped")

\* C2 (as claimed): with a timeout T > 0, a command whose output is still
\* open more than T seconds after it was started has been sent SIGKILL (and
\* the call returns EINVAL); the loop never sits on an open stream past T.
C2_KilledAtDeadline ==
    (timeout_seconds > 0 /\ fp_in = "open" /\ wopen /\ elapsed > timeout_seconds)
        => killSent

\* C3 (as claimed): on the popen2 path every invocation that entered the
\* select/read loop eventually leaves it, whatever the command does.
C3_BoundedReturns ==
    (pc = "b_select") ~> (pc \notin BoundedLoopPcs)

\* C4: on the popen2 path the time left for select plus the time already
\* slept in select is the configured timeout, at every point of the
\* invocation: the deadline is set once and the waits of one invocation
\* never add up to more than timeout_seconds.
C4_DeadlineFixed ==
    (pc \in BoundedPcs \cup {"closesession"} /\ timeout_seconds > 0 /\ fp_in # NULL)
        => /\ timeout + waited = timeout_seconds
           /\ timeout >= 0
           /\ waited <= timeout_seconds

\* C4 witness: a chunk was forwarded, a second was slept, and the next
\* select is entered with what is left of the original timeout
C4_Witness ==
    /\ pc = "b_select"
    /\ sink # << >>
    /\ waited = 1
    /\ timeout = 1
    /\ timeout_seconds = 2

\* C5 (as claimed): without a timeout, for a command that wrote its output
\* and exited, and was read without error, the descriptor received exactly
\* the bytes the command wrote and dispatch returned EOK.
C5_ByteForByte ==
    (Returned /\ timeout_seconds = 0 /\ child = "reaped" /\ ~readErr /\ fd >= 0)
        => (sink = Produced /\ evResult = "EOK")

\* C6 (as claimed): a dispatch of a handle that was never registered ends
\* with ENOENT, no process and nothing written.
C6_NotFound ==
    (pc = "closesession" /\ lastReg[hVar] = "absent")
        => (evResult = "ENOENT" /\ child = "none" /\ sink = << >>)

\* C6 (amended): a dispatch of a handle that was never registered starts no
\* process, writes nothing and never reaches ExecuteCommand; it returns
\* ENOENT, except for the handle VAR_INVALID, for which it returns EINVAL.
C6_NotFoundOrInvalid ==
    (Dispatched /\ lastReg[hVar] = "absent")
        => /\ pc = "closesession"
           /\ cmd = NULL
           /\ child = "none"
           /\ sink = << >>
           /\ evResult = IF hVar = VAR_INVALID THEN "EINVAL" ELSE "ENOENT"

\* C6 witness: a valid handle that is not in a non-empty list was dispatched
C6_Witness ==
    /\ pc = "closesession"
    /\ hVar # VAR_INVALID
    /\ lastReg[hVar] = "absent"
    /\ pExecVars # << >>
    /\ evResult = "ENOENT"

\* C7 (as claimed): a dispatch of a registered handle whose command is the
\* empty string or unset ends with ENOTSUP and no process.
C7_EmptyUnsupported ==
    (Dispatched /\ hVar # VAR_INVALID /\ lastReg[hVar] \in {"", NULL})
        => (pc = "closesession" /\ evResult = "ENOTSUP" /\ child = "none")

\* C7 (amended): a dispatch of a registered valid handle whose stored
\* command pointer is NULL ends with ENOTSUP, no process and nothing
\* written; an empty command string is handed to ExecuteCommand like any
\* other command.
C7_NullUnsupported ==
    /\ (Dispatched /\ hVar # VAR_INVALID /\ lastReg[hVar] = NULL)
          => /\ pc = "closesession"
             /\ evResult = "ENOTSUP"
             /\ cmd = NULL
             /\ child = "none"
             /\ sink = << >>
    /\ (Dispatched /\ hVar # VAR_INVALID /\ lastReg[hVar] = "")
          => cmd = ""

\* C7 witness: the handle's entry holds a NULL command and was dispatched
C7_Witness ==
    /\ pc = "closesession"
    /\ hVar # VAR_INVALID
    /\ lastReg[hVar] = NULL
    /\ evResult = "ENOTSUP"

\* C8: the walk of the list finds, for every handle, the command of the
\* last registration of that handle and nothing for a handle never
\* registered, before, during and after every dispatch; the command handed
\* to ExecuteCommand is that command.
C8_OverrideWins ==
    /\ \A h \in Handles : Lookup(pExecVars, h) = lastReg[h]
    /\ (Dispatched /\ cmd # NULL) => cmd = lastReg[hVar]

\* C8 witness: the handle was registered twice with different commands and
\* the dispatch ran the second one
C8_Witness ==
    /\ Returned
    /\ Len(pExecVars) = 2
    /\ pExecVars[1].hVar = hVar
    /\ pExecVars[2].hVar = hVar
    /\ pExecVars[1].pCmd # pExecVars[2].pCmd
    /\ pExecVars[2].pCmd # NULL
    /\ cmd = pExecVars[1].pCmd
    /\ child # "none"

\* C9: the popen path runs exactly when timeout_seconds <= 0, the popen2
\* path exactly when it is positive, with timeout_seconds as the time first
\* given to select, and ExecuteVar returns ExecuteCommand's result.
C9_ModeSelection ==
    /\ pc \in UnboundedPcs => timeout_seconds <= 0
    /\ pc \in BoundedPcs => timeout_seconds > 0
    /\ (pc = "b_select" /\ waited = 0) => timeout = timeout_seconds
    /\ Returned => evResult = result

\* C9 witness: a popen2 invocation ran into its timeout and returned
C9_Witness ==
    /\ Returned
    /\ timeout_seconds > 0
    /\ killSent
    /\ waited = timeout_seconds
    /\ evResult = "EINVAL"

\* C10 (as claimed): no outcome of a dispatch ends the process.
C10_NeverFatal == pc # "crashed"

\* C11 (as claimed): once the process has exited on a termination signal, no
\* command it started is still running and the pipe is closed.
C11_ReclaimedAtShutdown ==
    (pc = "exit1" /\ nsig > 0) => (child # "running" /\ ~orphan /\ ~ropen)

\* C12 (as claimed): whenever ExecuteCommand is about to start the command
\* of a request, no command started for an earlier request is still running.
C12_OneAtATime ==
    (pc \in {"u_popen", "b_popen2"}) => ~orphan

\* C13: a registered command that wrote nothing and whose output ended
\* before any deadline makes the dispatch return EOK with nothing written to
\* the descriptor, on the popen path and on the popen2 path (select did not
\* fail).
C13_EmptyOutputOk ==
    (Returned /\ fp_in = "closed" /\ nprod = 0 /\ ~killSent /\ retval >= 0)
        => (evResult = "EOK" /\ sink = << >>)

\* C13 witness: on the popen2 path the command exited at once without
\* output, before a second went by, and the dispatch has returned
C13_Witness ==
    /\ Returned
    /\ timeout_seconds > 0
    /\ fp_in = "closed"
    /\ fd >= 0
    /\ nprod = 0
    /\ child \in {"exited", "reaped"}
    /\ elapsed = 0
    /\ ~killSent
    /\ evResult = "EOK"
    /\ sink = << >>

\* the bytes of s are bytes the command of the request at hand wrote, in the
\* order it wrote them and each at most once
OwnBytes(s) ==
    /\ \A i \in 1..Len(s) : s[i] \in 1..nprod
    /\ \A i \in 1..(Len(s) - 1) : s[i] < s[i + 1]

\* C14: without a timeout every dispatch of a registered command, the first
\* and any later one of the same handle alike, starts with nothing read and
\* nothing delivered, has a command of its own from popen on, and returns
\* with that command waited for; what the descriptor was given are bytes
\* this command wrote, in its order and none twice.
C14_OwnExecution ==
    /\ pc = "u_popen" => (child = "none" /\ buf = << >> /\ sink = << >>)
    /\ pc \in UnboundedPcs \ {"u_popen"} => (child # "none" /\ OwnBytes(sink))
    /\ (Returned /\ UseUnbounded(timeout_seconds) /\ fp_in = "closed")
          => (child = "reaped" /\ OwnBytes(sink))

\* C14 witness: the handle was served before, and its next dispatch ran the
\* command again and delivered all of what this run wrote
C14_Witness ==
    /\ Returned
    /\ UseUnbounded(timeout_seconds)
    /\ lastServed = hVar
    /\ child = "reaped"
    /\ nprod = MaxOut
    /\ sink = Produced

\* C15 (as claimed): a start without a -f option never gets as far as the
\* connection to the variable server or the event loop.
C15_UsageExit ==
    (pc # "start" /\ pFileName = NULL)
        => (srv = NULL /\ pc \notin {"setup", "wait"})

\* C16 (as claimed): when ExecuteCommand returns after select failed, the
\* command is no longer running.
C16_KilledOnSelectError ==
    (Returned /\ timeout_seconds > 0 /\ retval < 0) => child # "running"

\* C17 (as claimed): a dispatch during which a read of the command's output
\* failed returns EINVAL.
C17_ReadErrorInvalid ==
    (Returned /\ readErr) => evResult = "EINVAL"

\* C18 (as claimed): VARSERVER_Close is called at most once, and only with
\* the handle of an open connection; a process that exited on a signal has
\* called it.
C18_ClosedOnce ==
    /\ Len(closes) <= 1
    /\ \A i \in 1..Len(closes) : closes[i] = "open"
    /\ (pc = "exit1" /\ nsig > 0) => Len(closes) = 1

\* C19: a print session is open exactly from VAR_OpenPrintSession to the
\* VAR_ClosePrintSession that follows the return of ExecuteVar, whatever
\* ExecuteVar returned: open all through the dispatch, and closed, with no
\* command of the request at hand, whenever the loop is back in
\* VARSERVER_WaitSignal, which is also where a signal other than
\* SIG_VAR_PRINT leaves it.
C19_SinkBracket ==
    /\ pc \in {"start", "open", "setup", "wait"}
          => (session = "none" /\ child = "none")
    /\ pc \in {"execvar", "closesession"} \cup UnboundedPcs \cup BoundedPcs
          => session = "open"

\* C19 witness: a request ran its command, its session was closed, and the
\* loop waits for the next signal
C19_Witness ==
    /\ pc = "wait"
    /\ sig = "SIG_VAR_PRINT"
    /\ lastServed # VAR_INVALID
    /\ session = "none"

\* C20: on the popen2 path, once select ran into the deadline and SIGKILL
\* was sent, the invocation is past its loop: it is in pclose or has
\* returned, with EINVAL as its result, nothing read and not yet written,
\* and the descriptor holding only bytes the command wrote before, none at
\* all if it wrote none.
C20_NothingAfterKill ==
    killSent
        => /\ pc \in {"b_pclose", "b_wait", "closesession"}
           /\ result = "EINVAL"
           /\ buf = << >>
           /\ OwnBytes(sink)
           /\ nprod = 0 => sink = << >>

\* C20 witness: a full buffer was forwarded, then the deadline expired, the
\* command was killed and the dispatch returned
C20_Witness ==
    /\ Returned
    /\ killSent
    /\ nprod = BUFSIZ
    /\ sink = Produced
    /\ evResult = "EINVAL"

\* C21: on the popen path no SIGKILL is ever sent (only an invocation with
\* a positive timeout sends one), ExecuteCommand returns only after the
\* command's output has ended and the command was waited for, and for as
\* long as the command holds its output open the loop is inside that one
\* ExecuteCommand (or the process is on its way out on a termination
\* signal): it is not back waiting for, or taking up, a later request.
C21_NoCancelUnbounded ==
    /\ killSent => timeout_seconds > 0
    /\ pc \in UnboundedPcs => ~killSent
    /\ (Returned /\ UseUnbounded(timeout_seconds) /\ fp_in = "closed")
          => (~wopen /\ child = "reaped")
    /\ (UseUnbounded(timeout_seconds) /\ wopen)
          => pc \in (UnboundedPcs \ {"u_popen"})
                      \cup {"h_close", "h_exit", "exit1"}

\* C21 witness: a command without timeout wrote less than a buffer and then
\* hangs with its output open; ExecuteCommand sits in fread
C21_Witness ==
    /\ pc = "u_fread"
    /\ UseUnbounded(timeout_seconds)
    /\ child = "running"
    /\ wopen
    /\ nprod = MaxOut
    /\ pipe = << >>
    /\ buf # << >>
    /\ ~killSent

\* C22 (as claimed): a dispatch that returned ENOENT, ENOTSUP or EINVAL has
\* left a syslog entry by the time main closes the print session, and a
\* timeout has left an entry naming the command and the timeout.
C22_ErrorsLogged ==
    /\ (pc = "closesession" /\ evResult \in {"ENOENT", "ENOTSUP", "EINVAL"})
          => log # << >>
    /\ killSent
          => \E i \in 1..Len(log) : log[i] = TimeoutEntry(timeout_seconds, cmd)

====
